---- MODULE Spec2Model ----
(***************************************************************************)
(* A model of the Granola MCP server: the GranolaAPI class                 *)
(* (src/src/granola-api.ts) and the tool handlers registered on the MCP    *)
(* server (src/src/index.ts).                                              *)
(*                                                                         *)
(* JavaScript strings are sequences of one-character strings, so that      *)
(* toLowerCase, includes, trim and template concatenation are computed     *)
(* character by character.                                                 *)
(***************************************************************************)
EXTENDS Integers, Sequences, FiniteSets, TLC

VARIABLES
    tree,          \* the argument handed to convertProseMirrorToMarkdown
    rendered,      \* its outcome: a returned string or a thrown error
    file,          \* the credential file on disk (environment)
    accessToken,   \* GranolaAPI.accessToken
    remote,        \* the service's document history, most recent first
    inv,           \* the tool invocations in progress, one per slot
    loads,         \* number of loadCredentials calls that returned a token
    lateReads,     \* number of credential file reads made while a token was cached
    lastLoad       \* the last loadCredentials call: the file it saw and its outcome

vars == <<tree, rendered, file, accessToken, remote, inv, loads, lateReads,
          lastLoad>>

renderVars == <<tree, rendered>>
serverVars == <<file, accessToken, remote, inv, loads, lateReads, lastLoad>>

----------------------------------------------------------------------------
(* Bounds of the model *)

\* longest child list of a generated content tree
MaxChildren == 3
\* longest mark list of a generated text node
MaxMarks == 2
\* largest heading level generated
MaxLevel == 3
\* longest document history generated for the matching operations
MaxDocs == 3
\* number of documents generated around the notes window
MaxNoteDocs == 2
\* number of invocation slots the hosting layer runs concurrently
MaxInv == 2
\* the counters kept of the credential loads stop counting here
MaxCount == 2

----------------------------------------------------------------------------
(* JavaScript strings *)

Null == "null"

Min(a, b) == IF a < b THEN a ELSE b

WhiteSpace == {" ", "\n", "\t"}

\* the character U+0060, which a TLA+ string literal cannot hold
BackTick == "U+0060"

Digits == <<"0", "1", "2", "3", "4", "5", "6", "7", "8", "9">>

LowerTable ==
    ("A" :> "a") @@ ("B" :> "b") @@ ("C" :> "c") @@ ("D" :> "d") @@ ("E" :> "e") @@
    ("F" :> "f") @@ ("G" :> "g") @@ ("H" :> "h") @@ ("I" :> "i") @@ ("J" :> "j") @@
    ("K" :> "k") @@ ("L" :> "l") @@ ("M" :> "m") @@ ("N" :> "n") @@ ("O" :> "o") @@
    ("P" :> "p") @@ ("Q" :> "q") @@ ("R" :> "r") @@ ("S" :> "s") @@ ("T" :> "t") @@
    ("U" :> "u") @@ ("V" :> "v") @@ ("W" :> "w") @@ ("X" :> "x") @@ ("Y" :> "y") @@
    ("Z" :> "z")

\* String.prototype.toLowerCase
toLowerCase(s) ==
    [i \in 1..Len(s) |-> IF s[i] \in DOMAIN LowerTable THEN LowerTable[s[i]] ELSE s[i]]

\* String.prototype.includes
includes(s, p) ==
    \E k \in 0..(Len(s) - Len(p)) : SubSeq(s, k + 1, k + Len(p)) = p

RECURSIVE TrimStart(_)
TrimStart(s) ==
    IF s # <<>> /\ Head(s) \in WhiteSpace THEN TrimStart(Tail(s)) ELSE s

RECURSIVE TrimEnd(_)
TrimEnd(s) ==
    IF s # <<>> /\ s[Len(s)] \in WhiteSpace
    THEN TrimEnd(SubSeq(s, 1, Len(s) - 1))
    ELSE s

\* String.prototype.trim
trim(s) == TrimEnd(TrimStart(s))

\* the decimal digits of a natural number, as a template literal prints it
RECURSIVE NumberToString(_)
NumberToString(n) ==
    IF n < 10
    THEN <<Digits[n + 1]>>
    ELSE NumberToString(n \div 10) \o <<Digits[(n % 10) + 1]>>

----------------------------------------------------------------------------
(* JavaScript values: attrs.level, notes_markdown, a string | null result *)

Undefined == [k |-> "undefined", n |-> 0, s |-> <<>>]
Num(n) == [k |-> "number", n |-> n, s |-> <<>>]
Str(s) == [k |-> "string", n |-> 0, s |-> s]
JsNull == [k |-> "null", n |-> 0, s |-> <<>>]

\* ToBoolean, as `x || 1` applies it
Truthy(v) ==
    CASE v.k \in {"undefined", "null"} -> FALSE
      [] v.k = "number" -> v.n # 0
      [] v.k = "string" -> v.s # <<>>

DigitValue(c) == CHOOSE d \in 0..9 : Digits[d + 1] = c

IsDigits(s) == s # <<>> /\ \A i \in 1..Len(s) : \E d \in 1..10 : Digits[d] = s[i]

RECURSIVE DigitsToNumber(_)
DigitsToNumber(s) ==
    IF s = <<>> THEN 0
    ELSE 10 * DigitsToNumber(SubSeq(s, 1, Len(s) - 1)) + DigitValue(s[Len(s)])

\* ToIntegerOrInfinity of a value: a string goes through ToNumber, and NaN
\* (a string that is no numeral) becomes 0
ToIntegerOrInfinity(v) ==
    CASE v.k \in {"undefined", "null"} -> 0
      [] v.k = "number" -> v.n
      [] v.k = "string" ->
            IF trim(v.s) = <<>> THEN 0
            ELSE IF IsDigits(trim(v.s)) THEN DigitsToNumber(trim(v.s))
            ELSE IF Head(trim(v.s)) = "-" /\ IsDigits(Tail(trim(v.s)))
                 THEN 0 - DigitsToNumber(Tail(trim(v.s)))
            ELSE 0

\* outcome of an evaluation: a returned string, or a thrown error
Returned(s) == [thrown |-> FALSE, error |-> "", value |-> s]
Thrown(e) == [thrown |-> TRUE, error |-> e, value |-> <<>>]

\* String.prototype.repeat: a negative count throws RangeError
repeat(c, count) ==
    IF ToIntegerOrInfinity(count) < 0
    THEN Thrown("RangeError")
    ELSE Returned([i \in 1..ToIntegerOrInfinity(count) |-> c])

----------------------------------------------------------------------------
(* GranolaAPI.convertProseMirrorToMarkdown *)

\* a ProseMirrorNode; an absent content, text or marks field is the empty
\* sequence its `|| []` / `|| ""` default gives, an absent attrs.level is Undefined
Node(type, content, text, marks, level) ==
    [type |-> type, content |-> content, text |-> text, marks |-> marks,
     level |-> level]

\* one step of the loop over the marks of a text node
WrapMark(result, mark) ==
    CASE mark = "bold" -> <<"*", "*">> \o result \o <<"*", "*">>
      [] mark = "italic" -> <<"*">> \o result \o <<"*">>
      [] mark = "code" -> <<BackTick>> \o result \o <<BackTick>>
      [] OTHER -> result

\* a loop that runs over the marks from the last to the first
RECURSIVE ApplyMarksReversed(_, _)
ApplyMarksReversed(result, marks) ==
    IF marks = <<>> THEN result
    ELSE WrapMark(ApplyMarksReversed(result, Tail(marks)), Head(marks))

RECURSIVE ApplyMarks(_, _)
ApplyMarks(result, marks) ==
    IF marks = <<>> THEN result
    ELSE ApplyMarks(WrapMark(result, Head(marks)), Tail(marks))

\* the level a heading is rendered with: (node.attrs?.level as number) || 1
HeadingLevel(node) == IF Truthy(node.level) THEN node.level ELSE Num(1)

\* a piece numbered with the 0-based index
OrderedPieceZeroBased(i, childText) ==
    IF childText # <<>>
    THEN NumberToString(i) \o <<".", " ">> \o childText
    ELSE <<>>

\* the piece an orderedList contributes for its child at 0-based index i
OrderedPiece(i, childText) ==
    IF childText # <<>>
    THEN NumberToString(i + 1) \o <<".", " ">> \o childText
    ELSE <<>>

RECURSIVE processNode(_)
RECURSIVE MapJoin(_)
RECURSIVE MapJoinOrdered(_, _)

\* content.map(processNode).join("")
MapJoin(content) ==
    IF content = <<>> THEN Returned(<<>>)
    ELSE LET h == processNode(Head(content))
         IN IF h.thrown THEN h
            ELSE LET t == MapJoin(Tail(content))
                 IN IF t.thrown THEN t ELSE Returned(h.value \o t.value)

\* content.map((child, i) => ...).join("") of an orderedList, from index i on
MapJoinOrdered(content, i) ==
    IF content = <<>> THEN Returned(<<>>)
    ELSE LET h == processNode(Head(content))
         IN IF h.thrown THEN h
            ELSE LET t == MapJoinOrdered(Tail(content), i + 1)
                 IN IF t.thrown THEN t
                    ELSE Returned(OrderedPiece(i, h.value) \o t.value)

processNode(node) ==
    LET kids == MapJoin(node.content)
    IN CASE node.type = "text" -> Returned(ApplyMarks(node.text, node.marks))
         [] node.type = "paragraph" ->
              IF kids.thrown THEN kids
              ELSE IF trim(kids.value) # <<>>
                   THEN Returned(kids.value \o <<"\n", "\n">>)
                   ELSE Returned(<<>>)
         [] node.type = "heading" ->
              IF kids.thrown THEN kids
              ELSE LET hashes == repeat("#", HeadingLevel(node))
                   IN IF hashes.thrown THEN hashes
                      ELSE Returned(hashes.value \o <<" ">> \o kids.value
                                      \o <<"\n", "\n">>)
         [] node.type = "bulletList" -> kids
         [] node.type = "listItem" ->
              IF kids.thrown THEN kids ELSE Returned(<<"-", " ">> \o kids.value)
         [] node.type = "orderedList" -> MapJoinOrdered(node.content, 0)
         [] node.type = "codeBlock" ->
              IF kids.thrown THEN kids
              ELSE Returned(<<BackTick, BackTick, BackTick, "\n">> \o kids.value
                              \o <<"\n", BackTick, BackTick, BackTick, "\n", "\n">>)
         [] node.type = "hardBreak" -> Returned(<<"\n">>)
         [] OTHER -> IF Len(node.content) > 0 THEN kids ELSE Returned(<<>>)

NullTree == Node("null", <<>>, <<>>, <<>>, Undefined)

convertProseMirrorToMarkdown(pmContent) ==
    IF pmContent = NullTree THEN Returned(<<>>) ELSE processNode(pmContent)

----------------------------------------------------------------------------
(* Errors *)

ConfigNotFound == "Granola config file not found"
NoWorkosTokens == "No workos_tokens found in Granola config"
NoAccessToken == "No access_token found in workos_tokens"
SyntaxError == "SyntaxError"
TypeError == "TypeError"

\* the message of the Error makeRequest throws for a non-2xx response
ApiError(status) ==
    CASE status = 401 -> "API error 401"
      [] status = 500 -> "API error 500"
      [] OTHER -> "API error"

ApiErrors == {ApiError(401), ApiError(500), ApiError(0)}

\* the taxonomy of the thrown errors, by the statement that throws them
ErrorKind(e) ==
    CASE e = ConfigNotFound -> "ConfigError"
      [] e \in {NoWorkosTokens, NoAccessToken} -> "AuthError"
      [] e \in ApiErrors -> "TransportError"
      [] e = SyntaxError -> "ParseError"
      [] OTHER -> "Error"

----------------------------------------------------------------------------
(* The credential file and GranolaAPI.loadCredentials / getAccessToken *)

Tokens == {"tokA", "tokB"}

\* the credential file: whether it exists, the shape of its JSON text (outer), the
\* shape of the JSON text held in workos_tokens (inner), and the access_token
CredFile(exists, outer, inner, token) ==
    [exists |-> exists, outer |-> outer, inner |-> inner, token |-> token]

FileAbsent == CredFile(FALSE, "none", "none", "")

FileStates ==
    {FileAbsent,
     CredFile(TRUE, "malformed", "none", ""),
     CredFile(TRUE, "no_workos_tokens", "none", ""),
     CredFile(TRUE, "empty_workos_tokens", "none", ""),
     CredFile(TRUE, "object", "malformed", ""),
     CredFile(TRUE, "object", "no_access_token", ""),
     CredFile(TRUE, "object", "empty_access_token", "")}
    \cup {CredFile(TRUE, "object", "object", t) : t \in Tokens}

\* a load that does not check the access_token it found
loadCredentialsUnchecked(f) ==
    IF ~f.exists THEN Thrown(ConfigNotFound)
    ELSE IF f.outer = "malformed" THEN Thrown(SyntaxError)
    ELSE IF f.outer \in {"no_workos_tokens", "empty_workos_tokens"}
         THEN Thrown(NoWorkosTokens)
    ELSE IF f.inner = "malformed" THEN Thrown(SyntaxError)
    ELSE Returned(f.token)

loadCredentials(f) ==
    IF ~f.exists THEN Thrown(ConfigNotFound)
    ELSE IF f.outer = "malformed" THEN Thrown(SyntaxError)
    ELSE IF f.outer \in {"no_workos_tokens", "empty_workos_tokens"}
         THEN Thrown(NoWorkosTokens)
    ELSE IF f.inner = "malformed" THEN Thrown(SyntaxError)
    ELSE IF f.inner \in {"no_access_token", "empty_access_token"}
         THEN Thrown(NoAccessToken)
    ELSE Returned(f.token)

\* !this.accessToken
NoToken(tok) == tok = Null \/ tok = ""

\* an accessor that loads the credential on every call
getAccessTokenReloads(tok, f) ==
    LET r == loadCredentials(f)
    IN [token |-> IF r.thrown THEN tok ELSE r.value, out |-> r, read |-> TRUE]

\* an accessor that drops the cached token when the file is gone
getAccessTokenForgets(tok, f) ==
    IF NoToken(tok)
    THEN LET r == loadCredentials(f)
         IN [token |-> IF r.thrown THEN tok ELSE r.value, out |-> r, read |-> TRUE]
    ELSE IF f.exists THEN [token |-> tok, out |-> Returned(tok), read |-> FALSE]
    ELSE [token |-> Null, out |-> Thrown(ConfigNotFound), read |-> FALSE]

\* getAccessToken on cached token tok and file f: the token cached afterwards,
\* what the call returns or throws, and whether it read the file
getAccessToken(tok, f) ==
    IF NoToken(tok)
    THEN LET r == loadCredentials(f)
         IN [token |-> IF r.thrown THEN tok ELSE r.value, out |-> r, read |-> TRUE]
    ELSE [token |-> tok, out |-> Returned(tok), read |-> FALSE]

\* the effect of one getAccessToken call g on the token and on the record kept of it
Credentials(g) ==
    /\ accessToken' = g.token
    /\ loads' = IF g.read /\ ~g.out.thrown THEN Min(loads + 1, MaxCount) ELSE loads
    /\ lateReads' = IF g.read /\ ~NoToken(accessToken)
                    THEN Min(lateReads + 1, MaxCount) ELSE lateReads
    /\ lastLoad' = IF g.read THEN [called |-> TRUE, file |-> file, out |-> g.out]
                   ELSE lastLoad

NoLoad == [called |-> FALSE, file |-> FileAbsent, out |-> Returned("")]

----------------------------------------------------------------------------
(* Documents, the remote service and GranolaAPI.makeRequest *)

\* a GranolaDocument; content is last_viewed_panel?.content, NullTree when absent
Doc(id, title, created_at, notes_markdown, content) ==
    [id |-> id, title |-> title, created_at |-> created_at,
     notes_markdown |-> notes_markdown, content |-> content]

NoDoc == Doc("", <<>>, "", Undefined, NullTree)

\* new Date(created_at).getTime() on the timestamps the model uses, in seconds
\* (the milliseconds do not fit the integers of the model checker)
DateGetTime(created_at) ==
    CASE created_at = "2024-01-01T00:00:00Z" -> 1704067200
      [] created_at = "2024-02-01T00:00:00Z" -> 1706745600
      [] created_at = "2024-02-01T01:00:00+01:00" -> 1706745600
      [] created_at = "2023-12-31T23:00:00-01:00" -> 1704067200
      [] OTHER -> 0

DocumentsUrl == "https://api.granola.ai/v2/get-documents"
TranscriptUrl == "https://api.granola.ai/v1/get-document-transcript"

\* the request fetch sends: the bearer token and the JSON body
Request(url, token, limit, offset, document_id) ==
    [url |-> url, token |-> token, limit |-> limit, offset |-> offset,
     document_id |-> document_id]

NoRequest == Request("", "", 0, 0, "")

\* JSON values of response bodies
JsonDocs(docs) == [k |-> "object", hasDocs |-> TRUE, docs |-> docs, items |-> <<>>]
JsonObject == [k |-> "object", hasDocs |-> FALSE, docs |-> <<>>, items |-> <<>>]
JsonArray(items) == [k |-> "array", hasDocs |-> FALSE, docs |-> <<>>, items |-> items]
JsonNull == [k |-> "null", hasDocs |-> FALSE, docs |-> <<>>, items |-> <<>>]

\* a response: its status, whether its body is JSON text, and the value it holds
Response(status, parses, json) == [status |-> status, parses |-> parses, json |-> json]

\* what the service lists for {limit, offset}: a window of its history
Listing(history, limit, offset) ==
    SubSeq(history, offset + 1, Min(Len(history), offset + limit))

FailedResponses ==
    {Response(401, TRUE, JsonObject), Response(500, FALSE, JsonNull),
     Response(200, FALSE, JsonNull)}

\* the responses the service may give to a get-documents request
DocumentsResponses(history, req) ==
    FailedResponses
    \cup {Response(200, TRUE, JsonDocs(Listing(history, req.limit, req.offset))),
          Response(200, TRUE, JsonObject)}

Segment(source, text) == [source |-> source, text |-> text]

Transcripts ==
    {<<>>,
     <<Segment("microphone", <<"h", "i">>)>>,
     <<Segment("microphone", <<"h", "i">>), Segment("system", <<"y", "o">>),
       Segment("other", <<"o", "k">>)>>}

\* the responses the service may give to a get-document-transcript request
TranscriptResponses ==
    FailedResponses
    \cup {Response(200, TRUE, JsonArray(t)) : t \in Transcripts}
    \cup {Response(200, TRUE, JsonObject), Response(200, TRUE, JsonNull)}

\* makeRequest from the response on: a non-2xx status and a malformed body throw
makeRequest(resp) ==
    IF ~(resp.status >= 200 /\ resp.status <= 299) THEN Thrown(ApiError(resp.status))
    ELSE IF ~resp.parses THEN Thrown(SyntaxError)
    ELSE Returned(resp.json)

\* getRecentDocuments from the outcome of its makeRequest on: response.docs || []
getRecentDocuments(out) ==
    IF out.thrown THEN out
    ELSE IF out.value.k = "null" THEN Thrown(TypeError)
    ELSE Returned(IF out.value.hasDocs THEN out.value.docs ELSE <<>>)

----------------------------------------------------------------------------
(* GranolaAPI.getDocumentTranscript, getDocumentNotes *)

FormatSegment(segment) ==
    IF segment.source = "microphone"
    THEN <<"*", "*", "M", "e", ":", "*", "*", " ">> \o segment.text
    ELSE IF segment.source = "system"
    THEN <<"*", "*", "S", "y", "s", "t", "e", "m", ":", "*", "*", " ">> \o segment.text
    ELSE segment.text

\* Array.prototype.join
RECURSIVE join(_, _)
join(strings, sep) ==
    IF strings = <<>> THEN <<>>
    ELSE IF Len(strings) = 1 THEN Head(strings)
    ELSE Head(strings) \o sep \o join(Tail(strings), sep)

\* a transcript lookup without its try/catch
getDocumentTranscriptNoCatch(out) ==
    IF out.thrown THEN out
    ELSE IF out.value.k # "array" \/ Len(out.value.items) = 0 THEN Returned(JsNull)
    ELSE Returned(Str(join([i \in 1..Len(out.value.items) |->
                               FormatSegment(out.value.items[i])],
                           <<"\n", "\n">>)))

\* getDocumentTranscript from the outcome of its makeRequest on; what it returns
getDocumentTranscript(out) ==
    IF out.thrown THEN Returned(JsNull)
    ELSE IF out.value.k # "array" \/ Len(out.value.items) = 0 THEN Returned(JsNull)
    ELSE Returned(Str(join([i \in 1..Len(out.value.items) |->
                               FormatSegment(out.value.items[i])],
                           <<"\n", "\n">>)))

\* Array.prototype.find on the id: the first document with that id, or NoDoc
RECURSIVE FindById(_, _)
FindById(documents, documentId) ==
    IF documents = <<>> THEN NoDoc
    ELSE IF Head(documents).id = documentId THEN Head(documents)
    ELSE FindById(Tail(documents), documentId)

\* a lookup that prefers the content tree to notes_markdown
getDocumentNotesTreeFirst(out, documentId) ==
    IF out.thrown THEN Returned(JsNull)
    ELSE LET doc == FindById(out.value, documentId)
         IN IF doc = NoDoc THEN Returned(JsNull)
            ELSE IF doc.content # NullTree
                 THEN LET md == convertProseMirrorToMarkdown(doc.content)
                      IN IF md.thrown THEN Returned(JsNull) ELSE Returned(Str(md.value))
            ELSE IF Truthy(doc.notes_markdown) THEN Returned(doc.notes_markdown)
            ELSE Returned(JsNull)

\* getDocumentNotes from the outcome of getRecentDocuments(100) on; what it returns
getDocumentNotes(out, documentId) ==
    IF out.thrown THEN Returned(JsNull)
    ELSE LET doc == FindById(out.value, documentId)
         IN IF doc = NoDoc THEN Returned(JsNull)
            ELSE IF Truthy(doc.notes_markdown) THEN Returned(doc.notes_markdown)
            ELSE IF doc.content # NullTree
                 THEN LET md == convertProseMirrorToMarkdown(doc.content)
                      IN IF md.thrown THEN Returned(JsNull) ELSE Returned(Str(md.value))
            ELSE Returned(JsNull)

----------------------------------------------------------------------------
(* GranolaAPI.searchDocuments, findLatest1on1 *)

\* a filter that forgets to lower-case the title
TitleMatchesCaseSensitive(doc, pattern) == includes(doc.title, pattern)

TitleMatches(doc, pattern) == includes(toLowerCase(doc.title), pattern)

\* searchDocuments from the outcome of getRecentDocuments(limit) on
searchDocuments(out, titlePattern) ==
    IF out.thrown THEN out
    ELSE LET pattern == toLowerCase(titlePattern)
             keep(doc) == TitleMatches(doc, pattern)
         IN Returned(SelectSeq(out.value, keep))

Is1on1Match(doc, nameLower) ==
    LET titleLower == toLowerCase(doc.title)
        hasName == includes(titleLower, nameLower)
        is1on1 == includes(titleLower, <<"1", ":", "1">>)
                    \/ includes(titleLower, <<"1", "x", "1">>)
    IN hasName /\ is1on1

\* a comparator with its operands swapped: ascending created_at
CompareCreatedAscending(a, b) == DateGetTime(a.created_at) - DateGetTime(b.created_at)

\* the comparator of the sort: descending created_at
CompareCreated(a, b) == DateGetTime(b.created_at) - DateGetTime(a.created_at)

\* Array.prototype.sort is stable: x goes before the first element that the
\* comparator orders after it
RECURSIVE SortInsert(_, _)
SortInsert(sorted, x) ==
    IF sorted = <<>> THEN <<x>>
    ELSE IF CompareCreated(Head(sorted), x) > 0 THEN <<x>> \o sorted
    ELSE <<Head(sorted)>> \o SortInsert(Tail(sorted), x)

RECURSIVE sort(_)
sort(documents) ==
    IF documents = <<>> THEN <<>>
    ELSE SortInsert(sort(SubSeq(documents, 1, Len(documents) - 1)),
                    documents[Len(documents)])

\* findLatest1on1 from the outcome of getRecentDocuments(50) on: {document} or null
findLatest1on1(out, personName) ==
    IF out.thrown THEN out
    ELSE LET nameLower == toLowerCase(personName)
             keep(doc) == Is1on1Match(doc, nameLower)
             matching == SelectSeq(out.value, keep)
         IN IF Len(matching) = 0 THEN Returned(NoDoc)
            ELSE Returned(sort(matching)[1])

----------------------------------------------------------------------------
(* The tool handlers of index.ts *)

\* limit of the listing getDocumentNotes fetches
NotesLimit == 100
\* limit of the listing findLatest1on1 fetches
LatestLimit == 50
\* default of the limit argument of get_recent_documents and search_documents
DefaultLimit == 20

\* a destructured argument with a default: `limit = 20`
DefaultTo(v, d) == IF v.k = "undefined" THEN d ELSE v.n

\* what a handler returns: isError, the fixed part of its text (head), the error
\* message, the JSON-printed summary (docs), and for get_latest_1on1 the title and
\* date of the header, the body (text) and the fixed text standing for a missing body
ToolResult(isError, head, message, docs, text) ==
    [isError |-> isError, head |-> head, message |-> message, docs |-> docs,
     title |-> <<>>, date |-> 0, text |-> text, tail |-> ""]

NoResult == ToolResult(FALSE, "", "", <<>>, <<>>)

\* a handler that returned a result, and one that let an error escape
Completed(result) == [thrown |-> FALSE, error |-> "", value |-> result]
Escaped(e) == [thrown |-> TRUE, error |-> e, value |-> NoResult]

\* documents.map((doc) => ({id, title, created_at}))
Summary(documents) ==
    [i \in 1..Len(documents) |->
        [id |-> documents[i].id, title |-> documents[i].title,
         created_at |-> documents[i].created_at]]

\* a handler that answers a failure with an empty list
get_recent_documents_quiet(out) ==
    IF out.thrown
    THEN Completed(ToolResult(FALSE, "json", "", <<>>, <<>>))
    ELSE Completed(ToolResult(FALSE, "json", "", Summary(out.value), <<>>))

\* the get_recent_documents handler from the outcome of api.getRecentDocuments on
get_recent_documents(out) ==
    IF out.thrown
    THEN Completed(ToolResult(TRUE, "Error fetching documents", out.error, <<>>, <<>>))
    ELSE Completed(ToolResult(FALSE, "json", "", Summary(out.value), <<>>))

\* the get_document handler from the outcome of api.getDocumentTranscript or
\* api.getDocumentNotes on
get_document(out, transcript) ==
    IF out.thrown
    THEN Completed(ToolResult(TRUE, "Error fetching document", out.error, <<>>, <<>>))
    ELSE IF ~Truthy(out.value)
    THEN Completed(ToolResult(FALSE,
                              IF transcript
                              THEN "No transcript available for this document"
                              ELSE "No AI notes available for this document",
                              "", <<>>, <<>>))
    ELSE Completed(ToolResult(FALSE, "text", "", <<>>, out.value.s))

\* the search_documents handler from the outcome of api.searchDocuments on
search_documents(out) ==
    IF out.thrown
    THEN Completed(ToolResult(TRUE, "Error searching documents", out.error, <<>>, <<>>))
    ELSE IF Len(Summary(out.value)) > 0
    THEN Completed(ToolResult(FALSE, "json", "", Summary(out.value), <<>>))
    ELSE Completed(ToolResult(FALSE, "No documents found matching", "", <<>>, <<>>))

\* the get_latest_1on1 handler when api.findLatest1on1 threw or returned null
get_latest_1on1_none(out) ==
    IF out.thrown
    THEN Completed(ToolResult(TRUE, "Error finding 1:1", out.error, <<>>, <<>>))
    ELSE Completed(ToolResult(FALSE, "No 1:1 meeting found with", "", <<>>, <<>>))

\* the get_latest_1on1 handler from the outcome of api.getDocumentTranscript or
\* api.getDocumentNotes for the selected document on
get_latest_1on1(document, out, transcript) ==
    IF out.thrown
    THEN Completed(ToolResult(TRUE, "Error finding 1:1", out.error, <<>>, <<>>))
    ELSE Completed(
           [ToolResult(FALSE, "meeting", "", <<>>,
                       IF Truthy(out.value) THEN out.value.s ELSE <<>>)
              EXCEPT !.title = document.title,
                     !.date = DateGetTime(document.created_at),
                     !.tail = IF Truthy(out.value) THEN ""
                              ELSE IF transcript
                              THEN "*No transcript available for this meeting*"
                              ELSE "*No AI notes available for this meeting*"])

----------------------------------------------------------------------------
(* Tool invocations *)

Slots == 1..MaxInv

\* one invocation: where it stands (pc), its arguments, the request in flight, and
\* the values its call chain holds: the error makeRequest or getAccessToken threw
\* (failure), the documents getRecentDocuments returned (fetched), the JSON value of
\* the transcript response (segments), what searchDocuments returned (matches), what
\* findLatest1on1 returned (document), what getDocumentTranscript or
\* getDocumentNotes returned (content), and the handler's result
IdleSlot ==
    [pc |-> "idle", tool |-> "", text |-> <<>>, document_id |-> "", limit |-> 0,
     transcript |-> FALSE, req |-> NoRequest, failure |-> "", fetched |-> <<>>,
     segments |-> JsonNull, matches |-> <<>>, document |-> NoDoc,
     content |-> JsNull, result |-> Completed(NoResult)]

Failure(out) == IF out.thrown THEN out.error ELSE ""
ValueOr(out, d) == IF out.thrown THEN d ELSE out.value

\* get_recent_documents from the outcome of makeRequest (or getAccessToken) on
Finish_get_recent_documents(slot, out) ==
    LET docs == getRecentDocuments(out)
    IN [slot EXCEPT !.pc = "done", !.failure = Failure(docs),
                    !.fetched = ValueOr(docs, <<>>),
                    !.result = get_recent_documents(docs)]

Finish_search_documents(slot, out) ==
    LET docs == getRecentDocuments(out)
        found == searchDocuments(docs, slot.text)
    IN [slot EXCEPT !.pc = "done", !.failure = Failure(docs),
                    !.fetched = ValueOr(docs, <<>>),
                    !.matches = ValueOr(found, <<>>),
                    !.result = search_documents(found)]

Finish_get_document(slot, out) ==
    IF slot.transcript
    THEN LET text == getDocumentTranscript(out)
         IN [slot EXCEPT !.pc = "done", !.failure = Failure(out),
                         !.segments = ValueOr(out, JsonNull),
                         !.content = ValueOr(text, JsNull),
                         !.result = get_document(text, TRUE)]
    ELSE LET docs == getRecentDocuments(out)
             notes == getDocumentNotes(docs, slot.document_id)
         IN [slot EXCEPT !.pc = "done", !.failure = Failure(docs),
                         !.fetched = ValueOr(docs, <<>>),
                         !.content = ValueOr(notes, JsNull),
                         !.result = get_document(notes, FALSE)]

\* get_latest_1on1 with the document selected, from the outcome of the second
\* makeRequest (or getAccessToken) on
Finish_get_latest_1on1(slot, out) ==
    IF slot.transcript
    THEN LET text == getDocumentTranscript(out)
         IN [slot EXCEPT !.pc = "done", !.failure = Failure(out),
                         !.segments = ValueOr(out, JsonNull),
                         !.content = ValueOr(text, JsNull),
                         !.result = get_latest_1on1(slot.document, text, TRUE)]
    ELSE LET docs == getRecentDocuments(out)
             notes == getDocumentNotes(docs, slot.document.id)
         IN [slot EXCEPT !.pc = "done", !.failure = Failure(docs),
                         !.fetched = ValueOr(docs, <<>>),
                         !.content = ValueOr(notes, JsNull),
                         !.result = get_latest_1on1(slot.document, notes, FALSE)]

\* a notes lookup that lists from the second most recent document on
ContentRequestSkipsFirst(token, document_id, transcript) ==
    IF transcript
    THEN Request(TranscriptUrl, token, 0, 0, document_id)
    ELSE Request(DocumentsUrl, token, NotesLimit, 1, "")

\* the request of the notes or transcript lookup for a document
ContentRequest(token, document_id, transcript) ==
    IF transcript
    THEN Request(TranscriptUrl, token, 0, 0, document_id)
    ELSE Request(DocumentsUrl, token, NotesLimit, 0, "")

\* the responses the service may give to the request in flight
Responses(req) ==
    IF req.url = TranscriptUrl THEN TranscriptResponses
    ELSE DocumentsResponses(remote, req)

Call_get_recent_documents(i, limit) ==
    /\ inv[i].pc = "idle"
    /\ LET g == getAccessToken(accessToken, file)
           slot == [IdleSlot EXCEPT !.tool = "get_recent_documents",
                                    !.limit = DefaultTo(limit, DefaultLimit)]
       IN /\ Credentials(g)
          /\ inv' = [inv EXCEPT ![i] =
                        IF g.out.thrown
                        THEN Finish_get_recent_documents(slot, g.out)
                        ELSE [slot EXCEPT !.pc = "fetch",
                                          !.req = Request(DocumentsUrl, g.out.value,
                                                          slot.limit, 0, "")]]
    /\ UNCHANGED <<tree, rendered, file, remote>>

Resume_get_recent_documents(i, resp) ==
    /\ inv[i].pc = "fetch"
    /\ inv[i].tool = "get_recent_documents"
    /\ inv' = [inv EXCEPT ![i] =
                     Finish_get_recent_documents(inv[i], makeRequest(resp))]
    /\ UNCHANGED <<tree, rendered, file, remote, accessToken, loads,
                   lateReads, lastLoad>>

Call_search_documents(i, query, limit) ==
    /\ inv[i].pc = "idle"
    /\ LET g == getAccessToken(accessToken, file)
           slot == [IdleSlot EXCEPT !.tool = "search_documents", !.text = query,
                                    !.limit = DefaultTo(limit, DefaultLimit)]
       IN /\ Credentials(g)
          /\ inv' = [inv EXCEPT ![i] =
                        IF g.out.thrown
                        THEN Finish_search_documents(slot, g.out)
                        ELSE [slot EXCEPT !.pc = "fetch",
                                          !.req = Request(DocumentsUrl, g.out.value,
                                                          slot.limit, 0, "")]]
    /\ UNCHANGED <<tree, rendered, file, remote>>

Resume_search_documents(i, resp) ==
    /\ inv[i].pc = "fetch"
    /\ inv[i].tool = "search_documents"
    /\ inv' = [inv EXCEPT ![i] =
                     Finish_search_documents(inv[i], makeRequest(resp))]
    /\ UNCHANGED <<tree, rendered, file, remote, accessToken, loads,
                   lateReads, lastLoad>>

Call_get_document(i, document_id, transcript) ==
    /\ inv[i].pc = "idle"
    /\ LET g == getAccessToken(accessToken, file)
           slot == [IdleSlot EXCEPT !.tool = "get_document",
                                    !.document_id = document_id,
                                    !.transcript = transcript]
       IN /\ Credentials(g)
          /\ inv' = [inv EXCEPT ![i] =
                        IF g.out.thrown
                        THEN Finish_get_document(slot, g.out)
                        ELSE [slot EXCEPT !.pc = "fetch",
                                          !.req = ContentRequest(g.out.value,
                                                                 document_id,
                                                                 transcript)]]
    /\ UNCHANGED <<tree, rendered, file, remote>>

Resume_get_document(i, resp) ==
    /\ inv[i].pc = "fetch"
    /\ inv[i].tool = "get_document"
    /\ inv' = [inv EXCEPT ![i] = Finish_get_document(inv[i], makeRequest(resp))]
    /\ UNCHANGED <<tree, rendered, file, remote, accessToken, loads,
                   lateReads, lastLoad>>

Call_get_latest_1on1(i, person_name, transcript) ==
    /\ inv[i].pc = "idle"
    /\ LET g == getAccessToken(accessToken, file)
           slot == [IdleSlot EXCEPT !.tool = "get_latest_1on1",
                                    !.text = person_name,
                                    !.transcript = transcript]
       IN /\ Credentials(g)
          /\ inv' = [inv EXCEPT ![i] =
                        IF g.out.thrown
                        THEN [slot EXCEPT !.pc = "done", !.failure = g.out.error,
                                          !.result = get_latest_1on1_none(g.out)]
                        ELSE [slot EXCEPT !.pc = "fetch",
                                          !.req = Request(DocumentsUrl, g.out.value,
                                                          LatestLimit, 0, "")]]
    /\ UNCHANGED <<tree, rendered, file, remote>>

\* the listing arrives: findLatest1on1 selects, and the handler goes on to request
\* the notes or the transcript of the selected document
Resume_findLatest1on1(i, resp) ==
    /\ inv[i].pc = "fetch"
    /\ inv[i].tool = "get_latest_1on1"
    /\ LET docs == getRecentDocuments(makeRequest(resp))
           found == findLatest1on1(docs, inv[i].text)
           slot == [inv[i] EXCEPT !.failure = Failure(docs),
                                  !.fetched = ValueOr(docs, <<>>),
                                  !.document = ValueOr(found, NoDoc)]
           g == getAccessToken(accessToken, file)
       IN IF found.thrown \/ found.value = NoDoc
          THEN /\ inv' = [inv EXCEPT ![i] =
                            [slot EXCEPT !.pc = "done",
                                         !.result = get_latest_1on1_none(found)]]
               /\ UNCHANGED <<accessToken, loads, lateReads, lastLoad>>
          ELSE /\ Credentials(g)
               /\ inv' = [inv EXCEPT ![i] =
                            IF g.out.thrown
                            THEN Finish_get_latest_1on1(slot, g.out)
                            ELSE [slot EXCEPT
                                    !.pc = "fetch2",
                                    !.req = ContentRequest(g.out.value,
                                                           found.value.id,
                                                           slot.transcript)]]
    /\ UNCHANGED <<tree, rendered, file, remote>>

Resume_get_latest_1on1(i, resp) ==
    /\ inv[i].pc = "fetch2"
    /\ inv[i].tool = "get_latest_1on1"
    /\ inv' = [inv EXCEPT ![i] =
                     Finish_get_latest_1on1(inv[i], makeRequest(resp))]
    /\ UNCHANGED <<tree, rendered, file, remote, accessToken, loads,
                   lateReads, lastLoad>>

\* the hosting layer sends the result of a finished invocation; the slot is free
Return(i) ==
    /\ inv[i].pc = "done"
    /\ inv' = [inv EXCEPT ![i] = IdleSlot]
    /\ UNCHANGED <<tree, rendered, file, remote, accessToken, loads,
                   lateReads, lastLoad>>

\* the credential file changes on disk (the desktop app logs in, out, rewrites it)
ChangeFile(f) ==
    /\ f # file
    /\ file' = f
    /\ UNCHANGED <<tree, rendered, remote, accessToken, inv, loads,
                   lateReads, lastLoad>>

\* the history of the service changes: meetings are recorded, documents deleted
ChangeRemote(h) ==
    /\ h # remote
    /\ remote' = h
    /\ UNCHANGED <<tree, rendered, file, accessToken, inv, loads, lateReads,
                   lastLoad>>

\* convertProseMirrorToMarkdown applied to the tree
Render ==
    /\ ~rendered.done
    /\ rendered' = [done |-> TRUE, out |-> convertProseMirrorToMarkdown(tree)]
    /\ UNCHANGED <<tree, file, remote, accessToken, inv, loads, lateReads,
                   lastLoad>>

----------------------------------------------------------------------------
(* Inputs *)

SeqUpTo(S, n) == UNION {[1..k -> S] : k \in 0..n}

TextNode(text, marks) == Node("text", <<>>, text, marks, Undefined)

MarkTypes == {"bold", "italic", "code", "underline"}

TextNodes ==
    {TextNode(t, m) : t \in {<<>>, <<"a">>}, m \in SeqUpTo(MarkTypes, MaxMarks)}

Leaves ==
    {TextNode(<<"a">>, <<>>), TextNode(<<>>, <<>>), TextNode(<<" ">>, <<>>),
     Node("hardBreak", <<>>, <<>>, <<>>, Undefined)}

LevelValues ==
    {Undefined, JsNull} \cup {Num(n) : n \in (0 - 1)..MaxLevel}
    \cup {Str(<<>>), Str(<<"a">>), Str(<<"2">>), Str(<<"-", "1">>)}

Headings ==
    {Node("heading", c, <<>>, <<>>, l) :
        c \in SeqUpTo(Leaves, MaxChildren), l \in LevelValues}

ContainerTypes ==
    {"paragraph", "bulletList", "listItem", "orderedList", "codeBlock", "doc",
     "hardBreak"}

Containers ==
    {Node(t, c, <<>>, <<>>, Undefined) :
        t \in ContainerTypes, c \in SeqUpTo(Leaves, MaxChildren)}

ParagraphA == Node("paragraph", <<TextNode(<<"a">>, <<>>)>>, <<>>, <<>>, Undefined)
ParagraphBlank == Node("paragraph", <<TextNode(<<" ">>, <<>>)>>, <<>>, <<>>, Undefined)
HeadingMinus == Node("heading", <<TextNode(<<"a">>, <<>>)>>, <<>>, <<>>, Num(0 - 1))

Items ==
    {Node("listItem", <<TextNode(<<"a">>, <<>>)>>, <<>>, <<>>, Undefined),
     ParagraphA, ParagraphBlank, HeadingMinus,
     TextNode(<<"a">>, <<"bold">>),
     Node("bulletList", <<>>, <<>>, <<>>, Undefined)}

Nested ==
    {Node(t, c, <<>>, <<>>, Undefined) :
        t \in {"orderedList", "bulletList", "doc"}, c \in SeqUpTo(Items, MaxChildren)}

Trees == {NullTree} \cup TextNodes \cup Headings \cup Containers \cup Nested

\* the documents of a response carry distinct ids: d1, d2, ... by position
WithIds(documents) ==
    [k \in 1..Len(documents) |-> [documents[k] EXCEPT !.id = "d" \o ToString(k)]]

Sam11 == <<"S", "a", "m", " ", "1", ":", "1">>
SamX == <<"S", "A", "M", " ", "1", "X", "1">>
Weekly == <<"W", "e", "e", "k", "l", "y", " ", "s", "y", "n", "c">>
SamOnly == <<"S", "a", "m">>
Al11 == <<"1", ":", "1", " ", "A", "l">>

MatchPayloads ==
    {Doc("", Sam11, "2024-01-01T00:00:00Z", Undefined, NullTree),
     Doc("", Sam11, "2024-02-01T00:00:00Z", Undefined, NullTree),
     Doc("", SamX, "2024-02-01T01:00:00+01:00", Undefined, NullTree),
     Doc("", Weekly, "2024-02-01T00:00:00Z", Undefined, NullTree),
     Doc("", SamOnly, "2024-02-01T00:00:00Z", Undefined, NullTree),
     Doc("", Al11, "2023-12-31T23:00:00-01:00", Undefined, NullTree)}

MatchHistories == {WithIds(s) : s \in SeqUpTo(MatchPayloads, MaxDocs)}

Queries == {<<>>, <<"s", "a", "m">>, <<"S", "A", "M">>, <<"1", ":", "1">>, <<"q">>}
Persons == {<<"S", "a", "m">>, <<"a", "l">>, <<>>, <<"q">>}
LimitArgs == {Undefined, Num(1), Num(2)}

NotePayloads ==
    {Doc("", <<"n">>, "2024-01-01T00:00:00Z", n, c) :
        n \in {Undefined, Str(<<>>), Str(<<"#">>)},
        c \in {NullTree, ParagraphA, HeadingMinus}}

\* k older documents listed ahead of the generated ones
Filler(k) ==
    [i \in 1..k |-> Doc(ToString(i), <<"f">>, "2024-02-01T00:00:00Z", Undefined, NullTree)]

\* documents at the edge of the window of NotesLimit documents, and at its start
Pads == {0} \cup (NotesLimit - 1)..NotesLimit

NoteHistories ==
    {Filler(k) \o WithIds(s) : k \in Pads, s \in SeqUpTo(NotePayloads, MaxNoteDocs)}

NoteIds == {"d" \o ToString(k) : k \in 1..MaxNoteDocs} \cup {"zz"}

LatestPayloads ==
    {Doc("", Sam11, "2024-02-01T00:00:00Z", Str(<<"#">>), NullTree),
     Doc("", SamX, "2024-01-01T00:00:00Z", Undefined, ParagraphA),
     Doc("", Weekly, "2024-02-01T00:00:00Z", Str(<<"#">>), NullTree)}

LatestHistories == {WithIds(s) : s \in [1..MaxNoteDocs -> LatestPayloads]}

\* history without its k-th document
Without(history, k) ==
    SubSeq(history, 1, k - 1) \o SubSeq(history, k + 1, Len(history))

\* what a history can become, once: one of its documents is deleted, or one
\* meeting or NotesLimit meetings are recorded ahead of it
RemoteChanges(history) ==
    IF history \notin LatestHistories THEN {}
    ELSE {Without(history, k) : k \in 1..Len(history)}
         \cup {Filler(k) \o history : k \in {1, NotesLimit}}

ServerHistory ==
    WithIds(<<Doc("", Sam11, "2024-02-01T00:00:00Z", Str(<<"#">>), NullTree),
              Doc("", Weekly, "2024-01-01T00:00:00Z", Undefined, ParagraphA)>>)

----------------------------------------------------------------------------
(* Specifications *)

ServerOff ==
    /\ file = FileAbsent
    /\ accessToken = Null
    /\ remote = <<>>
    /\ inv = [i \in Slots |-> IdleSlot]
    /\ loads = 0
    /\ lateReads = 0
    /\ lastLoad = NoLoad

RenderOff ==
    /\ tree = NullTree
    /\ rendered = [done |-> TRUE, out |-> Returned(<<>>)]

\* in the server runs the service answers a request in one of two ways
FewResponses(req) ==
    {Response(500, FALSE, JsonNull)}
    \cup (IF req.url = TranscriptUrl
          THEN {Response(200, TRUE,
                         JsonArray(<<Segment("microphone", <<"h", "i">>)>>))}
          ELSE {Response(200, TRUE,
                         JsonDocs(Listing(remote, req.limit, req.offset)))})

ServerFiles ==
    {FileAbsent, CredFile(TRUE, "object", "no_access_token", "")}
    \cup {CredFile(TRUE, "object", "object", t) : t \in Tokens}

\* the server: concurrent tool invocations over one GranolaAPI object
Init ==
    /\ RenderOff
    /\ file \in ServerFiles
    /\ accessToken = Null
    /\ remote = ServerHistory
    /\ inv = [i \in Slots |-> IdleSlot]
    /\ loads = 0
    /\ lateReads = 0
    /\ lastLoad = NoLoad

Next ==
    \/ \E i \in Slots : Call_get_recent_documents(i, Undefined)
    \/ \E i \in Slots : \E resp \in FewResponses(inv[i].req) :
          Resume_get_recent_documents(i, resp)
    \/ \E i \in Slots : Call_search_documents(i, <<"s", "a", "m">>, Undefined)
    \/ \E i \in Slots : \E resp \in FewResponses(inv[i].req) :
          Resume_search_documents(i, resp)
    \/ \E i \in Slots : Call_get_document(i, "d1", FALSE)
    \/ \E i \in Slots : \E resp \in FewResponses(inv[i].req) :
          Resume_get_document(i, resp)
    \/ \E i \in Slots : Call_get_latest_1on1(i, <<"s", "a", "m">>, TRUE)
    \/ \E i \in Slots : \E resp \in FewResponses(inv[i].req) :
          Resume_findLatest1on1(i, resp)
    \/ \E i \in Slots : \E resp \in FewResponses(inv[i].req) :
          Resume_get_latest_1on1(i, resp)
    \/ \E i \in Slots : Return(i)
    \/ \E f \in ServerFiles : ChangeFile(f)

Spec == Init /\ [][Next]_vars

\* one invocation at a time, over every credential file and every response
InitTools ==
    /\ RenderOff
    /\ file \in FileStates
    /\ accessToken = Null
    /\ remote = ServerHistory
    /\ inv = [i \in Slots |-> IdleSlot]
    /\ loads = 0
    /\ lateReads = 0
    /\ lastLoad = NoLoad

NextTools ==
    \/ \E l \in LimitArgs : Call_get_recent_documents(1, l)
    \/ \E resp \in Responses(inv[1].req) : Resume_get_recent_documents(1, resp)
    \/ \E l \in LimitArgs : Call_search_documents(1, <<"s", "a", "m">>, l)
    \/ \E resp \in Responses(inv[1].req) : Resume_search_documents(1, resp)
    \/ \E d \in {"d1", "zz"}, t \in BOOLEAN : Call_get_document(1, d, t)
    \/ \E resp \in Responses(inv[1].req) : Resume_get_document(1, resp)
    \/ \E t \in BOOLEAN : Call_get_latest_1on1(1, <<"s", "a", "m">>, t)
    \/ \E resp \in Responses(inv[1].req) : Resume_findLatest1on1(1, resp)
    \/ \E resp \in Responses(inv[1].req) : Resume_get_latest_1on1(1, resp)
    \/ Return(1)
    \/ \E f \in FileStates : ChangeFile(f)

SpecTools == InitTools /\ [][NextTools]_vars

\* the renderer applied to every generated tree
InitRender ==
    /\ ServerOff
    /\ tree \in Trees
    /\ rendered = [done |-> FALSE, out |-> Returned(<<>>)]

NextRender == Render

SpecRender == InitRender /\ [][NextRender]_vars

ValidFile == CredFile(TRUE, "object", "object", "tokA")

\* search_documents and get_latest_1on1 over every generated history
InitMatch ==
    /\ RenderOff
    /\ file = ValidFile
    /\ accessToken = Null
    /\ remote \in MatchHistories
    /\ inv = [i \in Slots |-> IdleSlot]
    /\ loads = 0
    /\ lateReads = 0
    /\ lastLoad = NoLoad

NextMatch ==
    \/ \E q \in Queries, l \in LimitArgs : Call_search_documents(1, q, l)
    \/ \E resp \in Responses(inv[1].req) : Resume_search_documents(1, resp)
    \/ \E p \in Persons : Call_get_latest_1on1(1, p, FALSE)
    \/ \E resp \in Responses(inv[1].req) : Resume_findLatest1on1(1, resp)
    \/ \E resp \in Responses(inv[1].req) : Resume_get_latest_1on1(1, resp)

SpecMatch == InitMatch /\ [][NextMatch]_vars

\* get_document (notes) over histories around the window of NotesLimit documents
InitNotes ==
    /\ RenderOff
    /\ file = ValidFile
    /\ accessToken = Null
    /\ remote \in NoteHistories
    /\ inv = [i \in Slots |-> IdleSlot]
    /\ loads = 0
    /\ lateReads = 0
    /\ lastLoad = NoLoad

NextNotes ==
    \/ \E d \in NoteIds : Call_get_document(1, d, FALSE)
    \/ \E resp \in Responses(inv[1].req) : Resume_get_document(1, resp)

SpecNotes == InitNotes /\ [][NextNotes]_vars

\* get_latest_1on1 (notes) while the history of the service changes
InitLatest ==
    /\ RenderOff
    /\ file = ValidFile
    /\ accessToken = Null
    /\ remote \in LatestHistories
    /\ inv = [i \in Slots |-> IdleSlot]
    /\ loads = 0
    /\ lateReads = 0
    /\ lastLoad = NoLoad

NextLatest ==
    \/ \E i \in Slots : Call_get_latest_1on1(i, <<"s", "a", "m">>, FALSE)
    \/ \E i \in Slots : \E resp \in FewResponses(inv[i].req) :
          Resume_findLatest1on1(i, resp)
    \/ \E i \in Slots : \E resp \in FewResponses(inv[i].req) :
          Resume_get_latest_1on1(i, resp)
    \/ \E h \in RemoteChanges(remote) : ChangeRemote(h)

SpecLatest == InitLatest /\ [][NextLatest]_vars

----------------------------------------------------------------------------
(* Properties *)

\* two characters that differ at most in case
SameLetter(a, b) ==
    \/ a = b
    \/ a \in DOMAIN LowerTable /\ LowerTable[a] = b
    \/ b \in DOMAIN LowerTable /\ LowerTable[b] = a

\* title contains query, case-insensitively
ContainsCI(title, query) ==
    \E k \in 0..(Len(title) - Len(query)) :
        \A j \in 1..Len(query) : SameLetter(title[k + j], query[j])

\* the positions of the sequence whose element is d
Positions(documents, d) == {k \in 1..Len(documents) : documents[k] = d}

SearchDone(i) ==
    /\ inv[i].pc = "done"
    /\ inv[i].tool = "search_documents"
    /\ inv[i].failure = ""

\* C1: searchDocuments returns exactly the fetched documents whose title contains
\* the query case-insensitively: every returned document is a fetched document
\* that qualifies, no qualifying fetched document is omitted, and the returned
\* documents stand in the order they had in the fetched sequence.
C1_SearchExact ==
    \A i \in Slots :
        SearchDone(i) =>
            LET fetched == inv[i].fetched
                returned == inv[i].matches
                query == inv[i].text
            IN /\ \A k \in 1..Len(returned) :
                     /\ ContainsCI(returned[k].title, query)
                     /\ Positions(fetched, returned[k]) # {}
               /\ \A k \in 1..Len(fetched) :
                     ContainsCI(fetched[k].title, query)
                        => Positions(returned, fetched[k]) # {}
               /\ \A a, b \in 1..Len(returned) :
                     a < b => \A pa \in Positions(fetched, returned[a]),
                                 pb \in Positions(fetched, returned[b]) : pa < pb
               /\ inv[i].result.value.docs = Summary(returned)

\* a search whose query matches only through the case folding, and which both
\* keeps and drops fetched documents
C1_Witness ==
    \E i \in Slots :
        /\ SearchDone(i)
        /\ inv[i].text = <<"s", "a", "m">>
        /\ Len(inv[i].fetched) = 3
        /\ Len(inv[i].matches) = 2
        /\ inv[i].fetched[1].title = Weekly
        /\ inv[i].matches[1].title = SamX
        /\ inv[i].matches[2].title = Sam11

Qualifies1on1(doc, person) ==
    /\ ContainsCI(doc.title, person)
    /\ \/ ContainsCI(doc.title, <<"1", ":", "1">>)
       \/ ContainsCI(doc.title, <<"1", "x", "1">>)

Qualifying(documents, person) ==
    {k \in 1..Len(documents) : Qualifies1on1(documents[k], person)}

\* findLatest1on1 has returned a document, and the handler asks for its content
Selected(i) ==
    /\ inv[i].tool = "get_latest_1on1"
    /\ inv[i].pc = "fetch2"

\* findLatest1on1 has returned null
NoneSelected(i) ==
    /\ inv[i].tool = "get_latest_1on1"
    /\ inv[i].pc = "done"
    /\ inv[i].result.value.head = "No 1:1 meeting found with"

\* C2: findLatest1on1 returns null exactly when no fetched document's title
\* contains, case-insensitively, the person name together with "1:1" or "1x1";
\* otherwise it returns a qualifying fetched document whose created_at instant is
\* at least that of every qualifying fetched document.
C2_LatestQualifying ==
    \A i \in Slots :
        /\ NoneSelected(i) => Qualifying(inv[i].fetched, inv[i].text) = {}
        /\ Selected(i) =>
              /\ Positions(inv[i].fetched, inv[i].document) # {}
              /\ Qualifies1on1(inv[i].document, inv[i].text)
              /\ \A k \in Qualifying(inv[i].fetched, inv[i].text) :
                    DateGetTime(inv[i].document.created_at)
                        >= DateGetTime(inv[i].fetched[k].created_at)

\* the January match is listed first, the February one is returned, and a document
\* without a marker is passed over
C2_Witness ==
    \E i \in Slots :
        /\ Selected(i)
        /\ inv[i].text = <<"S", "a", "m">>
        /\ Len(inv[i].fetched) = 3
        /\ inv[i].fetched[1].title = Sam11
        /\ inv[i].fetched[1].created_at = "2024-01-01T00:00:00Z"
        /\ inv[i].fetched[2].title = SamOnly
        /\ inv[i].fetched[3].created_at = "2024-02-01T00:00:00Z"
        /\ inv[i].document = inv[i].fetched[3]

NotesDone(i) ==
    /\ inv[i].pc = "done"
    /\ inv[i].tool = "get_document"
    /\ ~inv[i].transcript

\* the documents of the listing that carry the id
WithId(documents, id) == {k \in 1..Len(documents) : documents[k].id = id}

\* C3, as claimed: getDocumentNotes(id) fetches one listing of at most 100
\* documents and returns null if the fetch fails or no listed document has the
\* id; otherwise the document's notes_markdown verbatim when it carries one;
\* otherwise the rendering of its content tree when it carries one; otherwise
\* null. (Nothing is asked of a tree whose rendering throws.)
C3_AsClaimed ==
    \A i \in Slots :
        NotesDone(i) =>
            LET listed == inv[i].fetched
                hits == WithId(listed, inv[i].document_id)
            IN /\ Len(listed) <= NotesLimit
               /\ (inv[i].failure # "" \/ hits = {}) => inv[i].content = JsNull
               /\ \A k \in hits :
                     LET doc == listed[k]
                         md == convertProseMirrorToMarkdown(doc.content)
                     IN inv[i].failure = "" =>
                           IF doc.notes_markdown.k = "string"
                           THEN inv[i].content = doc.notes_markdown
                           ELSE IF doc.content # NullTree
                           THEN md.thrown \/ inv[i].content = Str(md.value)
                           ELSE inv[i].content = JsNull

\* C3, amended: as claimed, except that notes_markdown is returned only when it is
\* a non-empty string; with notes_markdown absent or empty the rendering of the
\* content tree is returned when the document carries a tree, null when rendering
\* that tree throws, and null when it carries no tree.
C3_NotesLookup ==
    \A i \in Slots :
        NotesDone(i) =>
            LET listed == inv[i].fetched
                hits == WithId(listed, inv[i].document_id)
            IN /\ Len(listed) <= NotesLimit
               /\ inv[i].req.limit = NotesLimit \/ inv[i].req = NoRequest
               /\ (inv[i].failure # "" \/ hits = {}) => inv[i].content = JsNull
               /\ \A k \in hits :
                     LET doc == listed[k]
                         md == convertProseMirrorToMarkdown(doc.content)
                     IN inv[i].failure = "" =>
                           IF doc.notes_markdown.k = "string"
                                /\ doc.notes_markdown.s # <<>>
                           THEN inv[i].content = doc.notes_markdown
                           ELSE IF doc.content # NullTree
                           THEN inv[i].content =
                                   (IF md.thrown THEN JsNull ELSE Str(md.value))
                           ELSE inv[i].content = JsNull

\* a document that lies behind the window of 100 and carries notes is looked up,
\* and the lookup returns null
C3_Witness ==
    \E i \in Slots :
        /\ NotesDone(i)
        /\ inv[i].failure = ""
        /\ Len(inv[i].fetched) = NotesLimit
        /\ WithId(inv[i].fetched, inv[i].document_id) = {}
        /\ \E k \in WithId(remote, inv[i].document_id) :
              /\ k > NotesLimit
              /\ Truthy(remote[k].notes_markdown)
        /\ inv[i].content = JsNull

TranscriptDone(i) ==
    /\ inv[i].pc = "done"
    /\ inv[i].tool = "get_document"
    /\ inv[i].transcript

\* C4: getDocumentTranscript never propagates an error: when the transcript
\* request fails (credential failure, non-2xx status, malformed body) or its result
\* is no list or an empty list it returns null, and get_document with
\* transcript=true answers "No transcript available" without the error flag.
C4_TranscriptNeverFails ==
    \A i \in Slots :
        TranscriptDone(i) =>
            /\ ~inv[i].result.thrown
            /\ ~inv[i].result.value.isError
            /\ (\/ inv[i].failure # ""
                \/ inv[i].segments.k # "array"
                \/ inv[i].segments.items = <<>>)
                  => /\ inv[i].content = JsNull
                     /\ inv[i].result.value.head
                           = "No transcript available for this document"

\* the transcript request was answered with a non-2xx status
C4_Witness ==
    \E i \in Slots :
        /\ TranscriptDone(i)
        /\ inv[i].req.url = TranscriptUrl
        /\ inv[i].failure = ApiError(500)
        /\ inv[i].result.value.head = "No transcript available for this document"

ListingDone(i) ==
    /\ inv[i].pc = "done"
    /\ inv[i].tool \in {"get_recent_documents", "search_documents"}

ErrorPrefix(tool) ==
    IF tool = "get_recent_documents" THEN "Error fetching documents"
    ELSE "Error searching documents"

\* C5: a credential failure or a non-2xx response during get_recent_documents or
\* search_documents is neither swallowed nor escapes the handler: the invocation
\* ends with an error-flagged result whose text reports that failure; with the
\* credential file absent when it is read, the reported failure is the
\* configuration error.
C5_ListingFailuresReported ==
    \A i \in Slots :
        ListingDone(i) =>
            /\ ~inv[i].result.thrown
            /\ ErrorKind(inv[i].failure) \in {"ConfigError", "AuthError", "TransportError"}
                  => /\ inv[i].result.value.isError
                     /\ inv[i].result.value.head = ErrorPrefix(inv[i].tool)
                     /\ inv[i].result.value.message = inv[i].failure
            /\ (lastLoad.called /\ ~lastLoad.file.exists)
                  => /\ inv[i].result.value.isError
                     /\ ErrorKind(inv[i].result.value.message) = "ConfigError"

\* the listing was asked for with the credential file absent
C5_Witness ==
    \E i \in Slots :
        /\ ListingDone(i)
        /\ inv[i].tool = "get_recent_documents"
        /\ ~file.exists
        /\ inv[i].failure = ConfigNotFound
        /\ inv[i].result.value.isError

\* C6: after the first getAccessToken call that succeeds, later calls return the
\* cached token without reading the credential file: no read happens while a token
\* is cached, and the credential is loaded at most once.
C6_LoadedOnce ==
    /\ loads <= 1
    /\ lateReads = 0
    /\ loads = 1 <=> accessToken # Null

\* two requests are in flight with the one loaded token, and the file on disk
\* has since come to hold another token
C6_Witness ==
    /\ loads = 1
    /\ \E i, j \in Slots :
          /\ i # j
          /\ inv[i].pc = "fetch"
          /\ inv[j].pc = "fetch"
          /\ inv[i].req.token = accessToken
          /\ inv[j].req.token = accessToken
    /\ file.exists
    /\ file.token \in Tokens
    /\ file.token # accessToken

InFlight(slot) == slot.pc \in {"fetch", "fetch2"}

\* C7: under every interleaving of tool invocations, failing ones included, the
\* cached token, once set, is never cleared nor replaced, and every request sent
\* once it is set carries it.
C7_TokenStable ==
    [][/\ accessToken # Null => accessToken' = accessToken
       /\ \A i \in Slots :
             InFlight(inv'[i])
                => /\ accessToken' # Null
                   /\ inv'[i].req.token = accessToken']_vars

\* a token is cached, the file has been removed, one invocation has failed and
\* another has its request in flight with the cached token
C7_Witness ==
    /\ accessToken \in Tokens
    /\ ~file.exists
    /\ \E i, j \in Slots :
          /\ inv[i].pc = "done"
          /\ inv[i].failure # ""
          /\ inv[j].pc = "fetch"
          /\ inv[j].req.token = accessToken

FieldMissing(f) ==
    /\ f.exists
    /\ \/ f.outer = "no_workos_tokens"
       \/ f.outer = "object" /\ f.inner = "no_access_token"

\* C8: loadCredentials fails with the ConfigError when the file does not exist and
\* with an AuthError when the workos_tokens field or the access_token field is
\* missing; the two are different errors, and after a failed load no token is
\* cached.
C8_LoadFailures ==
    lastLoad.called =>
        /\ ~lastLoad.file.exists
              => /\ lastLoad.out.thrown
                 /\ ErrorKind(lastLoad.out.error) = "ConfigError"
        /\ FieldMissing(lastLoad.file)
              => /\ lastLoad.out.thrown
                 /\ ErrorKind(lastLoad.out.error) = "AuthError"
                 /\ lastLoad.out.error # ConfigNotFound
        /\ lastLoad.out.thrown => accessToken = Null

\* the last load found a file without an access_token
C8_Witness ==
    /\ lastLoad.called
    /\ lastLoad.file.inner = "no_access_token"
    /\ lastLoad.out.error = NoAccessToken
    /\ accessToken = Null

\* a level attribute that is absent or malformed: zero, negative, non-numeric
MalformedLevel(v) ==
    \/ v.k \in {"undefined", "null"}
    \/ v.k = "number" /\ v.n <= 0
    \/ v.k = "string" /\ ~(IsDigits(v.s) /\ v.s # <<>> /\ DigitsToNumber(v.s) >= 1)

\* C9: convertProseMirrorToMarkdown never throws: a heading whose level is absent
\* or malformed is rendered with one '#', a space, the concatenated children and
\* two newlines, and a null tree renders to the empty string.
C9_NeverThrows ==
    rendered.done =>
        /\ ~rendered.out.thrown
        /\ (tree.type = "heading" /\ MalformedLevel(tree.level))
              => rendered.out.value
                    = <<"#", " ">> \o MapJoin(tree.content).value \o <<"\n", "\n">>
        /\ tree = NullTree => rendered.out.value = <<>>

RECURSIVE ConcatTo(_, _)
ConcatTo(pieces, n) ==
    IF n = 0 THEN <<>> ELSE ConcatTo(pieces, n - 1) \o pieces[n]

\* C10: an orderedList renders to the concatenation, in child order, of one piece
\* per child: nothing for a child that renders empty, otherwise the child's
\* 1-based position among all the children, ". " and the child's rendering; the
\* list fails only where rendering one of its children fails.
C10_OrderedNumbering ==
    (rendered.done /\ tree.type = "orderedList") =>
        LET n == Len(tree.content)
            child == [k \in 1..n |-> processNode(tree.content[k])]
            pieces == [k \in 1..n |->
                          IF child[k].value = <<>> THEN <<>>
                          ELSE NumberToString(k) \o <<".", " ">> \o child[k].value]
        IN /\ rendered.out.thrown <=> \E k \in 1..n : child[k].thrown
           /\ ~rendered.out.thrown => rendered.out.value = ConcatTo(pieces, n)

\* three children, the second of which renders empty
C10_Witness ==
    /\ rendered.done
    /\ tree.type = "orderedList"
    /\ Len(tree.content) = 3
    /\ processNode(tree.content[2]) = Returned(<<>>)
    /\ rendered.out
          = Returned(<<"1", ".", " ", "a", "\n", "\n", "3", ".", " ", "a", "\n", "\n">>)

\* the delimiter a mark puts on both sides of what it wraps
Delimiter(mark) ==
    CASE mark = "bold" -> <<"*", "*">>
      [] mark = "italic" -> <<"*">>
      [] mark = "code" -> <<BackTick>>
      [] OTHER -> <<>>

\* text wrapped by the first n marks: the n-th mark around the n - 1 before it
RECURSIVE WrappedBy(_, _, _)
WrappedBy(text, marks, n) ==
    IF n = 0 THEN text
    ELSE Delimiter(marks[n]) \o WrappedBy(text, marks, n - 1) \o Delimiter(marks[n])

TextRendered == rendered.done /\ tree.type = "text"

\* C11: a text node renders to its literal text wrapped once per mark in the
\* order of its mark list, each mark around the result of the marks before it
\* (bold **x**, italic *x*, code `x`, any other mark nothing), so the last mark is
\* the outermost wrapper; marks [bold, italic] give italic around bold.
C11_MarksInOrder ==
    TextRendered =>
        /\ rendered.out = Returned(WrappedBy(tree.text, tree.marks, Len(tree.marks)))
        /\ tree.marks = <<"bold", "italic">>
              => rendered.out.value = <<"*">> \o (<<"*", "*">> \o tree.text \o <<"*", "*">>)
                                        \o <<"*">>

\* code after bold: the backticks are outside the asterisks
C11_Witness ==
    /\ TextRendered
    /\ tree.text = <<"a">>
    /\ tree.marks = <<"bold", "code">>
    /\ rendered.out = Returned(<<BackTick, "*", "*", "a", "*", "*", BackTick>>)

LatestNotes(slot) == slot.tool = "get_latest_1on1" /\ ~slot.transcript

Listed(documents, doc) == \E k \in 1..Len(documents) : documents[k] = doc

\* the notes lookup of slot i gets its listing in this step, and the part of the
\* history the meeting was selected from is as it was at the selection
LookupOnUnchanged(i) ==
    /\ LatestNotes(inv[i])
    /\ inv[i].pc = "fetch2"
    /\ inv'[i].pc = "done"
    /\ inv'[i].failure = ""
    /\ inv'[i].fetched = Listing(remote, inv[i].req.limit, inv[i].req.offset)
    /\ inv[i].fetched = Listing(remote, LatestLimit, 0)

====
